---- MODULE Spec2Model ----
(***************************************************************************)
(* Model of the geli API: course enrollment (CourseController.enrollStudent *)
(* and leaveStudent) and the file-backed content units (UnitController and  *)
(* the FileUnit schema hooks).                                              *)
(*                                                                          *)
(* Strings that are converted by the code (names, uids) are sequences of    *)
(* character codes, so that toLowerCase is computed and not assumed.        *)
(***************************************************************************)
EXTENDS Integers, Sequences, FiniteSets, TLC

VARIABLES courses, last, reqs, acked, units, lectures, disk, nextUnit, nextFile, ulast,
          pending, alast, resp

courseVars == <<courses, last, reqs, acked>>

unitVars == <<units, lectures, disk, nextUnit, nextFile, ulast>>

adminVars == <<pending, alast>>

readVars == <<resp>>

vars == <<courses, last, reqs, acked, units, lectures, disk, nextUnit, nextFile, ulast,
          pending, alast, resp>>

----------------------------------------------------------------------------
(* Bounds *)

\* number of concurrently open enrollStudent requests
MaxReqs == 2
\* cap on the length of a membership list in the concurrent specification
MaxStudents == 3
\* number of units that are ever created
MaxUnits == 2
\* number of units that are ever created where one unit's files are followed
MaxFileUnits == 1
\* number of binaries that are ever uploaded
MaxUploads == 2
\* longest files list a request body carries
MaxFiles == 2
\* number of concurrently open addCourse requests
MaxAdds == 2
\* number of courses that are ever created
MaxCourses == 2

----------------------------------------------------------------------------
(* Values *)

\* the JavaScript value `undefined` of an absent field
Undefined == "<undefined>"

\* result of findById when no document has the id
NoDoc == [null |-> TRUE]

CourseIds == {"c1", "c2"}

\* access keys a course may hold or a request may submit
AccessKeys == {Undefined, "", "s3cr3t", "wrong"}

EnrollTypes == {"free", "whitelist", "accesskey"}

\* "Ad", "ad", "Lo", "lo", "a1", "a2", "A1" as character codes
sAd == <<65, 100>>
sad == <<97, 100>>
sLo == <<76, 111>>
slo == <<108, 111>>
sa1 == <<97, 49>>
sa2 == <<97, 50>>
sA1 == <<65, 49>>

\* the registered accounts (IUser): _id is the key of the function
Users ==
  [u \in {"u1", "u2", "u3"} |->
     CASE u = "u1" -> [firstName |-> sAd, lastName |-> sLo, uid |-> sa1]
       [] u = "u2" -> [firstName |-> sad, lastName |-> slo, uid |-> sa2]
       [] u = "u3" -> [firstName |-> sad, lastName |-> sLo, uid |-> sA1]]

UserIds == DOMAIN Users

\* the WhitelistUser collection: _id is the key of the function
WhitelistUsers ==
  [w \in {"w1", "w2", "w3"} |->
     CASE w = "w1" -> [firstName |-> sad, lastName |-> slo, uid |-> sa1]
       [] w = "w2" -> [firstName |-> sad, lastName |-> slo, uid |-> sa2]
       [] w = "w3" -> [firstName |-> sAd, lastName |-> sLo, uid |-> sa1]]

WhitelistIds == DOMAIN WhitelistUsers

----------------------------------------------------------------------------
(* Pure helpers *)

\* String.prototype.toLowerCase on character codes: A..Z map to a..z
ToLowerCase(s) ==
  [i \in DOMAIN s |-> IF s[i] >= 65 /\ s[i] <= 90 THEN s[i] + 32 ELSE s[i]]

\* JavaScript truthiness of a string-or-undefined value
Truthy(x) == x # Undefined /\ x # ""

Elems(s) == {s[i] : i \in DOMAIN s}

Count(s, x) == Cardinality({i \in DOMAIN s : s[i] = x})

\* Array.prototype.indexOf, 0-based, -1 when absent
IndexOf(s, x) ==
  IF \E i \in DOMAIN s : s[i] = x
    THEN (CHOOSE i \in DOMAIN s : s[i] = x /\ \A j \in DOMAIN s : s[j] = x => i <= j) - 1
    ELSE -1

\* Array.prototype.splice(start, 1): a negative start counts from the end
Splice1(s, start) ==
  LET len == Len(s)
      st  == IF start < 0
               THEN (IF len + start < 0 THEN 0 ELSE len + start)
               ELSE (IF start > len THEN len ELSE start)
  IN  IF st >= len THEN s
      ELSE [i \in 1..(len - 1) |-> IF i <= st THEN s[i] ELSE s[i + 1]]

\* s with every occurrence of x removed, order kept
RECURSIVE Without(_, _)
Without(s, x) ==
  IF s = <<>> THEN <<>>
  ELSE IF Head(s) = x THEN Without(Tail(s), x)
  ELSE <<Head(s)>> \o Without(Tail(s), x)

----------------------------------------------------------------------------
(* Enrollment *)

\* WhitelistUser.find(course.whitelist): the entries the course refers to
WhitelistFind(course) == {WhitelistUsers[w] : w \in course.whitelist}

\* OnWhitelist comparing the uid without regard to case
OnWhitelist_uidFolded(course, u) ==
  \E e \in WhitelistFind(course) :
     /\ e.firstName = ToLowerCase(Users[u].firstName)
     /\ e.lastName = ToLowerCase(Users[u].lastName)
     /\ ToLowerCase(e.uid) = ToLowerCase(Users[u].uid)

\* the filter of enrollStudent: entries equal to the acting user's triple
OnWhitelist(course, u) ==
  \E e \in WhitelistFind(course) :
     /\ e.firstName = ToLowerCase(Users[u].firstName)
     /\ e.lastName = ToLowerCase(Users[u].lastName)
     /\ e.uid = Users[u].uid

\* PolicyCheck comparing the key only when the request submits one
PolicyCheck_missingKeyPasses(course, u, key) ==
  IF course.enrollType = "whitelist"
    THEN (IF OnWhitelist(course, u) THEN "returned" ELSE "notOnWhitelist")
    ELSE IF Truthy(course.accessKey) /\ Truthy(key) /\ course.accessKey # key
      THEN "invalidAccessKey"
      ELSE "pass"

\* the policy branch of enrollStudent: "pass", "returned" (the whitelist
\* branch returns the promise of the lookup, so the handler ends there),
\* or the code of the ForbiddenError thrown
PolicyCheck(course, u, key) ==
  IF course.enrollType = "whitelist"
    THEN (IF OnWhitelist(course, u) THEN "returned" ELSE "notOnWhitelist")
    ELSE IF Truthy(course.accessKey) /\ course.accessKey # key
      THEN "invalidAccessKey"
      ELSE "pass"

\* EnrollLocal pushing without the indexOf test
EnrollLocal_alwaysPush(course, u, key) ==
  LET p == PolicyCheck(course, u, key)
  IN  IF p = "returned" THEN [outcome |-> "undefined", push |-> FALSE]
      ELSE IF p # "pass" THEN [outcome |-> p, push |-> FALSE]
      ELSE [outcome |-> "Enrolled", push |-> TRUE]

\* the handler up to (not including) course.save(): outcome and local document
EnrollLocal(course, u, key) ==
  LET p == PolicyCheck(course, u, key)
  IN  IF p = "returned" THEN [outcome |-> "undefined", push |-> FALSE]
      ELSE IF p # "pass" THEN [outcome |-> p, push |-> FALSE]
      ELSE IF IndexOf(course.students, u) < 0
        THEN [outcome |-> "Enrolled", push |-> TRUE]
        ELSE [outcome |-> "AlreadyEnrolled", push |-> FALSE]

\* course.save() after students.push(u): the push is written as an append
SavePush(cs, id, u) ==
  [cs EXCEPT ![id].students = Append(@, u)]

IdleReq == [pc |-> "idle", id |-> "c1", user |-> "u1"]

NoCall ==
  [op |-> "none", id |-> "c1", user |-> "u1", key |-> Undefined,
   outcome |-> "none", pre |-> NoDoc, saved |-> FALSE]

enrollStudent(id, key, u) ==
  /\ IF id \notin DOMAIN courses
       THEN /\ last' = [op |-> "enroll", id |-> id, user |-> u, key |-> key,
                        outcome |-> "NotFound", pre |-> NoDoc, saved |-> FALSE]
            /\ UNCHANGED courses
       ELSE LET course == courses[id]
                r == EnrollLocal(course, u, key)
            IN  /\ courses' = IF r.push THEN SavePush(courses, id, u) ELSE courses
                /\ last' = [op |-> "enroll", id |-> id, user |-> u, key |-> key,
                            outcome |-> r.outcome, pre |-> course, saved |-> r.push]
  /\ UNCHANGED <<reqs, acked>>
  /\ UNCHANGED <<unitVars, adminVars, readVars>>

\* the membership list leaveStudent leaves in the local document
LeaveLocal(course, u) ==
  LET index == IndexOf(course.students, u)
  IN  IF index # 0
        THEN [students |-> Splice1(course.students, index), saved |-> TRUE]
        ELSE [students |-> course.students, saved |-> FALSE]

leaveStudent(id, u) ==
  /\ IF id \notin DOMAIN courses
       THEN /\ last' = [op |-> "leave", id |-> id, user |-> u, key |-> Undefined,
                        outcome |-> "NotFound", pre |-> NoDoc, saved |-> FALSE]
            /\ UNCHANGED courses
       ELSE LET course == courses[id]
                r == LeaveLocal(course, u)
            IN  /\ courses' = [courses EXCEPT ![id].students = r.students]
                /\ last' = [op |-> "leave", id |-> id, user |-> u, key |-> Undefined,
                            outcome |-> "Left", pre |-> course, saved |-> r.saved]
  /\ UNCHANGED <<reqs, acked>>
  /\ UNCHANGED <<unitVars, adminVars, readVars>>


----------------------------------------------------------------------------
(* Course administration *)

CourseNames == {"n1", "n2"}

\* the _id given to the n-th course created
NewCourseIds == <<"c1", "c2", "c3", "c4">>

\* an addCourse request that is not open
IdleAdd == [pc |-> "idle", body |-> NoDoc, existing |-> FALSE, inUse |-> FALSE]

\* the last completed addCourse or updateCourse call; inUse: some course had
\* the name when addCourse looked it up
NoAdminCall == [op |-> "none", id |-> "c1", outcome |-> "none", inUse |-> FALSE]

\* some persisted course has the name
NameInUse(cs, name) == \E c \in DOMAIN cs : cs[c].name = name

\* the unique index on Course.name: may the course id hold the name
UniqueName(cs, id, name) ==
  \A c \in DOMAIN cs \ {id} : cs[c].name # name

\* ExistingCourse without the lookup: no course is ever found
ExistingCourse_never(cs, name) == FALSE

\* Course.findOne({name: course.name}) is not null
ExistingCourse(cs, name) == \E c \in DOMAIN cs : cs[c].name = name

\* request bodies of addCourse: a free course, or an accesskey course and its key
AddCourseBodies ==
  [name : CourseNames, active : {FALSE}, enrollType : {"free"}, accessKey : {Undefined}]
    \cup [name : CourseNames, active : {FALSE}, enrollType : {"accesskey"},
          accessKey : {"s3cr3t"}]

\* request bodies of updateCourse: the fields to set
UpdateCourseBodies ==
  [name : CourseNames \cup {Undefined}, enrollType : {Undefined, "free", "accesskey"},
   accessKey : {Undefined, "s3cr3t"}]

\* addCourse up to the answer of Course.findOne
addCourseFind(r, body) ==
  /\ pending[r].pc = "idle"
  /\ pending' = [pending EXCEPT ![r] =
                   [pc |-> "found", body |-> body,
                    existing |-> ExistingCourse(courses, body.name),
                    inUse |-> NameInUse(courses, body.name)]]
  /\ UNCHANGED <<alast, courseVars, unitVars, readVars>>

\* addCourse from the answer of Course.findOne: the error, or new Course(course).save()
addCourseSave(r) ==
  /\ pending[r].pc = "found"
  /\ LET p == pending[r]
         id == NewCourseIds[Cardinality(DOMAIN courses) + 1]
         done(outcome) == alast' = [op |-> "add", id |-> id, outcome |-> outcome,
                                    inUse |-> p.inUse]
     IN  IF p.existing
           THEN done("BadRequest duplicateName") /\ UNCHANGED courses
         ELSE IF ~UniqueName(courses, id, p.body.name)
           THEN done("DuplicateKey") /\ UNCHANGED courses
         ELSE /\ Cardinality(DOMAIN courses) < MaxCourses
              /\ done("Created")
              /\ courses' = (id :> [name |-> p.body.name, active |-> p.body.active,
                                    enrollType |-> p.body.enrollType,
                                    accessKey |-> p.body.accessKey,
                                    whitelist |-> {}, students |-> <<>>]) @@ courses
  /\ pending' = [pending EXCEPT ![r] = IdleAdd]
  /\ UNCHANGED <<last, reqs, acked, unitVars, readVars>>

\* findOneAndUpdate's update document: the fields of the body that are given
SetCourseFields(doc, body) ==
  [doc EXCEPT !.name = IF body.name # Undefined THEN body.name ELSE @,
              !.enrollType = IF body.enrollType # Undefined THEN body.enrollType ELSE @,
              !.accessKey = IF body.accessKey # Undefined THEN body.accessKey ELSE @]

updateCourse(id, body, role, teaches) ==
  /\ LET done(outcome) == alast' = [op |-> "update", id |-> id, outcome |-> outcome,
                                    inUse |-> FALSE]
     IN  IF id \notin DOMAIN courses \/ (role # "admin" /\ ~teaches)
           THEN done("undefined") /\ UNCHANGED courses
         ELSE LET doc == SetCourseFields(courses[id], body)
              IN  IF ~UniqueName(courses, id, doc.name)
                    THEN done("DuplicateKey") /\ UNCHANGED courses
                    ELSE done("Updated") /\ courses' = [courses EXCEPT ![id] = doc]
  /\ UNCHANGED <<pending, last, reqs, acked, unitVars, readVars>>

NoResp == [op |-> "none", role |-> "admin", outcome |-> "none", shown |-> <<>>]

----------------------------------------------------------------------------
(* Content units and their files *)

\* the Lecture collection in its natural order
LectureIds == {"l1", "l2"}

FirstLecture == "l1"

UnitTypes == {"file", "free-text"}

\* PathOf with a filename that is not generated per upload
PathOf_fixedName(n) == <<"uploads", 1>>

\* multer's diskStorage: destination 'uploads/' and the generated filename
PathOf(n) == <<"uploads", n>>

\* the record handleUploadedFile builds of the n-th uploaded binary
UploadedRec(n) ==
  [path |-> PathOf(n), name |-> n, alias |-> "original.pdf", size |-> 7]

RECURSIVE SeqsUpTo(_, _)
SeqsUpTo(S, n) ==
  IF n = 0 THEN {<<>>}
  ELSE LET shorter == SeqsUpTo(S, n - 1)
       IN  shorter \cup {Append(q, x) : q \in shorter, x \in S}

\* a request body without the model (or one JSON.parse or the handler rejects)
NoModel == [missing |-> TRUE]

\* the last completed unit call: the step of addUnit that ended it, whether
\* the request body listed a files field, whether the files setter ran, the
\* list it was given, the paths handed to fs.unlink and how many were not on
\* disk
NoUnitCall ==
  [op |-> "none", id |-> 0, outcome |-> "none", stage |-> "none",
   listed |-> FALSE, setter |-> FALSE, newFiles |-> <<>>, unlinks |-> <<>>, missing |-> 0]

\* the unlink calls that fail because the file is not there
Missing(d, paths) == Cardinality({i \in DOMAIN paths : paths[i] \notin d})

\* FilesSetter with the test inverted: the retained files are unlinked
FilesSetter_unlinkRetained(files, newFiles) ==
  LET keep(file) == \E k \in DOMAIN newFiles : newFiles[k].name = file.name
      F[i \in 0..Len(files)] ==
        IF i = 0 THEN <<>>
        ELSE IF keep(files[i]) THEN Append(F[i - 1], files[i].path) ELSE F[i - 1]
  IN  F[Len(files)]

\* the setter of the files path: the paths handed to fs.unlink, in order
FilesSetter(files, newFiles) ==
  LET keep(file) == \E k \in DOMAIN newFiles : newFiles[k].name = file.name
      F[i \in 0..Len(files)] ==
        IF i = 0 THEN <<>>
        ELSE IF keep(files[i]) THEN F[i - 1] ELSE Append(F[i - 1], files[i].path)
  IN  F[Len(files)]

\* the pre('remove') hook: fs.unlink of every file of the unit
PreRemove(files) == [i \in DOMAIN files |-> files[i].path]

\* fs.unlink / fs.unlinkSync of each path: a missing file changes nothing
Unlink(d, paths) == d \ Elems(paths)

\* handleUploadedFile: files defaults to [] and the new record is pushed
handleUploadedFile(n, unit) ==
  [unit EXCEPT !.hasFiles = TRUE,
               !.files = Append(IF unit.hasFiles THEN unit.files ELSE <<>>,
                                UploadedRec(n))]

\* the required validator of fileUnitType, applied on create and save
Valid(doc) == doc.type = "file" => Truthy(doc.fileUnitType)

\* oldUnit.set(data): fields of the FileUnit schema present in data are set
SetFields(doc, data) ==
  IF doc.type # "file" THEN doc
  ELSE [doc EXCEPT
          !.files = IF data.hasFiles THEN data.files ELSE @,
          !.fileUnitType = IF data.fileUnitType # Undefined
                             THEN data.fileUnitType ELSE @]

\* request bodies of updateUnit: the fields of the unit to set
UpdateBodies ==
  [fileUnitType : {Undefined, ""}, hasFiles : BOOLEAN,
   files : SeqsUpTo({UploadedRec(n) : n \in 1..MaxUploads}, MaxFiles)]

updateUnit(upload, id, body) ==
  /\ upload => nextFile <= MaxUploads
  /\ body # NoModel => (body.hasFiles \/ body.files = <<>>)
  \* the files a body lists are records of the unit itself, each at most once,
  \* in any order
  /\ (body # NoModel /\ id \in DOMAIN units)
       => Elems(body.files) \subseteq Elems(units[id].files)
  /\ (body # NoModel /\ id \notin DOMAIN units) => body.files = <<>>
  /\ body # NoModel
       => \A i, j \in DOMAIN body.files : body.files[i] = body.files[j] => i = j
  /\ (upload /\ body # NoModel) => Len(body.files) < MaxFiles
  /\ ~upload => body # NoModel
  /\ LET disk1 == IF upload THEN disk \cup {PathOf(nextFile)} ELSE disk
     IN  /\ nextFile' = IF upload THEN nextFile + 1 ELSE nextFile
         /\ IF id \notin DOMAIN units
              THEN /\ ulast' = [NoUnitCall EXCEPT !.op = "update", !.id = id,
                                   !.outcome = "NotFound"]
                   /\ disk' = disk1
                   /\ UNCHANGED units
            ELSE IF upload /\ body = NoModel
              THEN /\ ulast' = [NoUnitCall EXCEPT !.op = "update", !.id = id,
                                   !.outcome = "BadRequest"]
                   /\ disk' = disk1
                   /\ UNCHANGED units
            ELSE LET oldUnit == units[id]
                     data == IF upload THEN handleUploadedFile(nextFile, body) ELSE body
                     setter == oldUnit.type = "file" /\ data.hasFiles
                     unlinks == IF setter THEN FilesSetter(oldUnit.files, data.files)
                                ELSE <<>>
                     doc == SetFields(oldUnit, data)
                 IN  /\ disk' = Unlink(disk1, unlinks)
                     /\ units' = IF Valid(doc) THEN [units EXCEPT ![id] = doc] ELSE units
                     /\ ulast' = [op |-> "update", id |-> id, stage |-> "none",
                                  outcome |-> IF Valid(doc) THEN "Updated"
                                              ELSE "ValidationError",
                                  listed |-> body.hasFiles,
                                  setter |-> setter,
                                  newFiles |-> IF setter THEN data.files ELSE <<>>,
                                  unlinks |-> unlinks,
                                  missing |-> Missing(disk1, unlinks)]
  /\ UNCHANGED <<lectures, nextUnit>>
  /\ UNCHANGED <<courseVars, adminVars, readVars>>

\* request bodies of addUnit: data.model
AddModels ==
  [_course : {Undefined, "c1"}, type : UnitTypes, fileUnitType : {Undefined, "file"},
   hasFiles : {FALSE}, files : {<<>>}, code : {Undefined}]

\* data.model of a code-kata unit with its code payload
KataModels ==
  [_course : {"c1"}, type : {"code-kata"}, fileUnitType : {Undefined},
   hasFiles : {FALSE}, files : {<<>>}, code : {"solution"}]

\* checkPostParam: the message of the BadRequestError thrown, or "ok"
checkPostParam(lectureId, model) ==
  IF ~Truthy(lectureId) THEN "No lecture ID was submitted."
  ELSE IF model = NoModel THEN "No unit was submitted."
  ELSE IF ~Truthy(model._course) THEN "Unit has no _course set"
  ELSE "ok"

addUnit(maxUnits, upload, parses, lectureId, model) ==
  /\ upload => nextFile <= MaxUploads
  /\ ~upload => parses
  /\ nextUnit <= maxUnits
  /\ LET disk1 == IF upload THEN disk \cup {PathOf(nextFile)} ELSE disk
         path == <<PathOf(nextFile)>>
         failed(stage, outcome, d, us) ==
           /\ ulast' = [NoUnitCall EXCEPT !.op = "add", !.outcome = outcome,
                          !.stage = stage, !.unlinks = us]
           /\ disk' = d
     IN  /\ nextFile' = IF upload THEN nextFile + 1 ELSE nextFile
         /\ IF ~parses
              THEN failed("parse", "BadRequest", disk1, <<>>)
                   /\ UNCHANGED <<units, lectures, nextUnit>>
            ELSE IF checkPostParam(lectureId, model) # "ok"
              THEN /\ IF upload
                        THEN failed("checkPostParam", "BadRequest", Unlink(disk1, path), path)
                        ELSE failed("checkPostParam", "BadRequest", disk1, <<>>)
                   /\ UNCHANGED <<units, lectures, nextUnit>>
            ELSE LET m == IF upload THEN handleUploadedFile(nextFile, model) ELSE model
                     doc == [type |-> m.type,
                             fileUnitType |-> IF m.type = "file" THEN m.fileUnitType
                                              ELSE Undefined,
                             files |-> IF m.type = "file" /\ m.hasFiles THEN m.files
                                       ELSE <<>>,
                             code |-> IF m.type = "code-kata" THEN m.code ELSE Undefined]
                 IN  IF ~Valid(doc)
                       THEN /\ IF upload
                                 THEN failed("create", "ValidationError",
                                             Unlink(disk1, path), path)
                                 ELSE failed("create", "ValidationError", disk1, <<>>)
                            /\ UNCHANGED <<units, lectures, nextUnit>>
                     ELSE /\ units' = (nextUnit :> doc) @@ units
                          /\ nextUnit' = nextUnit + 1
                          /\ IF lectureId \notin LectureIds
                               THEN /\ IF upload
                                         THEN failed("pushToLecture", "BadRequest",
                                                     Unlink(disk1, path), path)
                                         ELSE failed("pushToLecture", "BadRequest",
                                                     disk1, <<>>)
                                    /\ UNCHANGED lectures
                               ELSE /\ lectures' = [lectures EXCEPT
                                                      ![lectureId] = Append(@, nextUnit)]
                                    /\ disk' = disk1
                                    /\ ulast' = [NoUnitCall EXCEPT !.op = "add",
                                                   !.id = nextUnit, !.outcome = "Created",
                                                   !.stage = "done"]
  /\ UNCHANGED <<courseVars, adminVars, readVars>>

\* Lecture.update({}, {$pull: {units: id}}): without the multi option the
\* update applies to the first document the empty filter matches
PullFromLecture(ls, id) ==
  [ls EXCEPT ![FirstLecture] = Without(@, id)]

deleteUnit(id) ==
  /\ IF id \notin DOMAIN units
       THEN /\ ulast' = [NoUnitCall EXCEPT !.op = "delete", !.id = id,
                            !.outcome = "NotFound"]
            /\ UNCHANGED <<units, lectures, disk>>
       ELSE LET unit == units[id]
                unlinks == IF unit.type = "file" THEN PreRemove(unit.files) ELSE <<>>
            IN  /\ lectures' = PullFromLecture(lectures, id)
                /\ disk' = Unlink(disk, unlinks)
                /\ units' = [u \in DOMAIN units \ {id} |-> units[u]]
                /\ ulast' = [NoUnitCall EXCEPT !.op = "delete", !.id = id,
                               !.outcome = "Deleted", !.unlinks = unlinks,
                               !.missing = Missing(disk, unlinks)]
  /\ UNCHANGED <<nextUnit, nextFile>>
  /\ UNCHANGED <<courseVars, adminVars, readVars>>

----------------------------------------------------------------------------
(* Read paths *)

\* the JavaScript value null
Null == "<null>"

Roles == {"student", "teacher", "admin"}

\* course.lectures of the populated course, in order
CourseLectures == <<"l1", "l2">>

\* userReadConditions joined with _id: does findOne return the course
\* (teaches: the course lists the user among teachers or as courseAdmin)
ReadAllowed(course, u, role, teaches) ==
  IF role = "admin" THEN TRUE
  ELSE IF role = "student" THEN course.active /\ u \in Elems(course.students)
  ELSE teaches

\* populate of lecture.units: the units that exist, in the order of the list
RECURSIVE Populate(_)
Populate(ids) ==
  IF ids = <<>> THEN <<>>
  ELSE IF Head(ids) \in DOMAIN units
    THEN <<[id |-> Head(ids), type |-> units[Head(ids)].type,
            code |-> units[Head(ids)].code]>> \o Populate(Tail(ids))
    ELSE Populate(Tail(ids))

\* the forEach of getCourse: code of a code-kata unit is nulled for a student
GetCourseProjection(us, role) ==
  [i \in DOMAIN us |->
     IF us[i].type = "code-kata" /\ role = "student"
       THEN [us[i] EXCEPT !.code = Null] ELSE us[i]]

getCourse(id, u, role, teaches) ==
  /\ IF id \notin DOMAIN courses \/ ~ReadAllowed(courses[id], u, role, teaches)
       THEN resp' = [op |-> "getCourse", role |-> role, outcome |-> "NotFound",
                     shown |-> <<>>]
       ELSE resp' = [op |-> "getCourse", role |-> role, outcome |-> "ok",
                     shown |-> GetCourseProjection(
                                 Populate(lectures[CourseLectures[1]])
                                   \o Populate(lectures[CourseLectures[2]]), role)]
  /\ UNCHANGED <<courseVars, unitVars, adminVars>>

\* getUnit takes no current user: the unit is returned as stored
getUnit(id, role) ==
  /\ IF id \notin DOMAIN units
       THEN resp' = [op |-> "getUnit", role |-> role, outcome |-> "TypeError",
                     shown |-> <<>>]
       ELSE resp' = [op |-> "getUnit", role |-> role, outcome |-> "ok",
                     shown |-> Populate(<<id>>)]
  /\ UNCHANGED <<courseVars, unitVars, adminVars>>

----------------------------------------------------------------------------
(* Specification of the sequential course operations *)

CourseDocs ==
  [active : BOOLEAN, enrollType : EnrollTypes, accessKey : AccessKeys,
   whitelist : SUBSET WhitelistIds, students : {<<>>}]

InitUnits ==
  /\ units = <<>>
  /\ lectures = [l \in LectureIds |-> <<>>]
  /\ disk = {}
  /\ nextUnit = 1
  /\ nextFile = 1
  /\ ulast = NoUnitCall
  /\ pending = [r \in 1..MaxAdds |-> IdleAdd]
  /\ alast = NoAdminCall
  /\ resp = NoResp

Init ==
  /\ \E d \in CourseDocs : courses = [c \in {"c1"} |-> d]
  /\ last = NoCall
  /\ reqs = [r \in 1..MaxReqs |-> IdleReq]
  /\ acked = {}
  /\ InitUnits

Next ==
  \/ \E id \in CourseIds, key \in AccessKeys, u \in UserIds : enrollStudent(id, key, u)
  \/ \E id \in CourseIds, u \in UserIds : leaveStudent(id, u)

Spec == Init /\ [][Next]_vars

----------------------------------------------------------------------------
(* Properties of enrollStudent and leaveStudent.  `last` records the last  *)
(* completed call with the course document it read (pre).                   *)

StudentsNow == courses[last.id].students

\* C1: on a whitelist course whose whitelist holds the acting user's
\* normalized triple, a user not yet enrolled is a member of the persisted
\* course.students after enrollStudent (outcome Enrolled).
C1_WhitelistedUserEnrolled ==
  (/\ last.op = "enroll" /\ last.pre # NoDoc
   /\ last.pre.enrollType = "whitelist"
   /\ OnWhitelist(last.pre, last.user)
   /\ last.user \notin Elems(last.pre.students))
  => (last.user \in Elems(StudentsNow) /\ last.outcome = "Enrolled")

\* C2: on a whitelist course none of whose entries equals the acting user's
\* triple (lower-cased names, case-sensitive uid), enrollStudent rejects
\* with not-on-whitelist and the persisted students are unchanged.
C2_NotOnWhitelistRejected ==
  (/\ last.op = "enroll" /\ last.pre # NoDoc
   /\ last.pre.enrollType = "whitelist"
   /\ \A w \in last.pre.whitelist :
        WhitelistUsers[w] # [firstName |-> ToLowerCase(Users[last.user].firstName),
                             lastName |-> ToLowerCase(Users[last.user].lastName),
                             uid |-> Users[last.user].uid])
  => (last.outcome = "notOnWhitelist" /\ ~last.saved /\ StudentsNow = last.pre.students)

\* C2 witness: whitelist {ad lo a1}; the user Ad Lo with uid A1 (u3), whose
\* triple differs from the entry in the case of the uid only, was rejected
C2_Witness ==
  /\ last.op = "enroll" /\ last.pre # NoDoc
  /\ last.pre.enrollType = "whitelist"
  /\ last.pre.whitelist = {"w1"}
  /\ last.user = "u3"
  /\ last.outcome = "notOnWhitelist"

\* C3: on an accesskey course with a set (non-empty) accessKey the acting
\* user is added iff the submitted key equals course.accessKey; any mismatch,
\* a missing key included, rejects with invalid-access-key and leaves the
\* students unchanged.  With accessKey unset every submitted key enrolls.
C3_AccessKeyExact ==
  (last.op = "enroll" /\ last.pre # NoDoc /\ last.pre.enrollType = "accesskey")
  => /\ (Truthy(last.pre.accessKey) /\ last.key = last.pre.accessKey)
          => /\ last.outcome \in {"Enrolled", "AlreadyEnrolled"}
             /\ last.user \in Elems(StudentsNow)
             /\ (last.user \notin Elems(last.pre.students)
                   => StudentsNow = Append(last.pre.students, last.user))
     /\ (Truthy(last.pre.accessKey) /\ last.key # last.pre.accessKey)
          => /\ last.outcome = "invalidAccessKey"
             /\ StudentsNow = last.pre.students
     /\ last.pre.accessKey = Undefined
          => /\ last.outcome \in {"Enrolled", "AlreadyEnrolled"}
             /\ last.user \in Elems(StudentsNow)

\* C3 witness: key s3cr3t set, a request without a key was rejected
C3_Witness ==
  /\ last.op = "enroll" /\ last.pre # NoDoc
  /\ last.pre.enrollType = "accesskey"
  /\ last.pre.accessKey = "s3cr3t"
  /\ last.key = Undefined
  /\ last.outcome = "invalidAccessKey"
  /\ Len(StudentsNow) > 0

\* C4: on an active free course enrollStudent never rejects, whatever
\* course.accessKey holds and whatever key is submitted: the acting user
\* ends up in course.students.
C4_FreeNeverRejects ==
  (/\ last.op = "enroll" /\ last.pre # NoDoc
   /\ last.pre.active /\ last.pre.enrollType = "free")
  => (last.outcome \in {"Enrolled", "AlreadyEnrolled"}
      /\ last.user \in Elems(StudentsNow))

\* C5: on a course that is not active enrollStudent rejects with
\* course-inactive under every enrollType and key, and the students are
\* unchanged.
C5_InactiveRejects ==
  (last.op = "enroll" /\ last.pre # NoDoc /\ ~last.pre.active)
  => (last.outcome = "courseInactive" /\ StudentsNow = last.pre.students)

\* C6: when the acting user is already in course.students and the policy
\* check passes, enrollStudent succeeds without saving and the students are
\* the same sequence as before; no user ever occurs twice in a membership
\* list after any sequence of calls.
C6_EnrollIdempotent ==
  /\ (/\ last.op = "enroll" /\ last.pre # NoDoc
      /\ last.user \in Elems(last.pre.students)
      /\ PolicyCheck(last.pre, last.user, last.key) \in {"pass", "returned"})
     => /\ last.outcome \in {"AlreadyEnrolled", "undefined"}
        /\ ~last.saved
        /\ StudentsNow = last.pre.students
  /\ \A c \in DOMAIN courses : \A u \in UserIds : Count(courses[c].students, u) <= 1

\* C6 witness: a member of a two-student course enrolled again
C6_Witness ==
  /\ last.op = "enroll" /\ last.pre # NoDoc
  /\ last.outcome = "AlreadyEnrolled"
  /\ Len(last.pre.students) = 2
  /\ last.user = last.pre.students[2]

\* C7: leaveStudent removes the acting user at whatever position they
\* occur (position 0 included) and keeps every other student in order.
C7_LeaveRemovesAnywhere ==
  (/\ last.op = "leave" /\ last.pre # NoDoc
   /\ last.user \in Elems(last.pre.students))
  => /\ last.user \notin Elems(StudentsNow)
     /\ StudentsNow = Without(last.pre.students, last.user)

\* C8: leaveStudent by a user who is not enrolled succeeds and leaves the
\* persisted students exactly as they were.
C8_LeaveAbsentNoOp ==
  (/\ last.op = "leave" /\ last.pre # NoDoc
   /\ last.user \notin Elems(last.pre.students))
  => (last.outcome = "Left" /\ StudentsNow = last.pre.students)

----------------------------------------------------------------------------
(* Concurrent enrollStudent requests: each request suspends at             *)
(* Course.findById, at WhitelistUser.find and at course.save               *)

\* Course.findById resolves and the callback runs on the document read
ReqRead(r, id, key, u) ==
  /\ reqs[r].pc = "idle"
  /\ id \in DOMAIN courses
  /\ Len(courses[id].students)
       + Cardinality({q \in DOMAIN reqs : reqs[q].pc = "saving" /\ reqs[q].id = id})
       < MaxStudents
  /\ LET course == courses[id]
         l == EnrollLocal(course, u, key)
     IN  IF course.enrollType = "whitelist"
           THEN /\ reqs' = [reqs EXCEPT ![r] = [pc |-> "finding", id |-> id, user |-> u]]
                /\ UNCHANGED acked
           ELSE IF l.push
             THEN /\ reqs' = [reqs EXCEPT ![r] = [pc |-> "saving", id |-> id, user |-> u]]
                  /\ UNCHANGED acked
             ELSE /\ reqs' = reqs
                  /\ acked' = IF l.outcome = "AlreadyEnrolled"
                                THEN acked \cup {<<id, u>>} ELSE acked
  /\ UNCHANGED <<courses, last>>
  /\ UNCHANGED <<unitVars, adminVars, readVars>>

\* WhitelistUser.find resolves: the handler throws or ends without a value
ReqWhitelist(r) ==
  /\ reqs[r].pc = "finding"
  /\ reqs' = [reqs EXCEPT ![r] = IdleReq]
  /\ UNCHANGED <<courses, last, acked>>
  /\ UNCHANGED <<unitVars, adminVars, readVars>>

\* course.save() resolves: the pushed student is appended to the stored list
ReqSave(r) ==
  /\ reqs[r].pc = "saving"
  /\ courses' = SavePush(courses, reqs[r].id, reqs[r].user)
  /\ acked' = acked \cup {<<reqs[r].id, reqs[r].user>>}
  /\ reqs' = [reqs EXCEPT ![r] = IdleReq]
  /\ UNCHANGED last
  /\ UNCHANGED <<unitVars, adminVars, readVars>>

NextConc ==
  \/ \E r \in 1..MaxReqs, id \in CourseIds, key \in AccessKeys, u \in UserIds :
        ReqRead(r, id, key, u)
  \/ \E r \in 1..MaxReqs : ReqWhitelist(r)
  \/ \E r \in 1..MaxReqs : ReqSave(r)

SpecConc == Init /\ [][NextConc]_vars

\* C9: under every interleaving of concurrent enrollStudent requests no
\* user occurs twice in the persisted course.students and no student whose
\* request returned the course is missing from it.
C9_ConcurrentEnrollSafe ==
  /\ \A c \in DOMAIN courses : \A u \in UserIds : Count(courses[c].students, u) <= 1
  /\ \A a \in acked : a[2] \in Elems(courses[a[1]].students)

----------------------------------------------------------------------------
(* Specification of the unit operations on one fixed course *)

InitUnit ==
  /\ courses = [c \in {"c1"} |->
                  [active |-> TRUE, enrollType |-> "free", accessKey |-> Undefined,
                   whitelist |-> {}, students |-> <<>>]]
  /\ last = NoCall
  /\ reqs = [r \in 1..MaxReqs |-> IdleReq]
  /\ acked = {}
  /\ InitUnits

NextUnit ==
  \/ \E upload \in BOOLEAN, parses \in BOOLEAN,
        lectureId \in LectureIds \cup {Undefined, "lx"},
        model \in AddModels \cup {NoModel} :
        addUnit(MaxUnits, upload, parses, lectureId, model)
  \/ \E upload \in BOOLEAN, id \in 1..MaxUnits, body \in UpdateBodies \cup {NoModel} :
        updateUnit(upload, id, body)
  \/ \E id \in 1..MaxUnits : deleteUnit(id)

SpecUnit == InitUnit /\ [][NextUnit]_vars

\* the same operations with MaxFileUnits units, to follow a unit's files
NextFiles ==
  \/ \E upload \in BOOLEAN, parses \in BOOLEAN,
        lectureId \in LectureIds \cup {Undefined, "lx"},
        model \in AddModels \cup {NoModel} :
        addUnit(MaxFileUnits, upload, parses, lectureId, model)
  \/ \E upload \in BOOLEAN, id \in 1..MaxFileUnits, body \in UpdateBodies \cup {NoModel} :
        updateUnit(upload, id, body)
  \/ \E id \in 1..MaxFileUnits : deleteUnit(id)

SpecFiles == InitUnit /\ [][NextFiles]_vars

\* C10: when updateUnit replaces the files of a FileUnit, fs.unlink is called
\* once for each previously stored file whose name is not in the new list, on
\* that file's path, and never for a file whose name is retained; an unlink
\* of a file that is not on disk does not make the call fail.
C10_SetterUnlinksRemovedOnly ==
  [][(ulast'.op = "update" /\ ulast'.setter)
       => LET old == units[ulast'.id].files
              new == ulast'.newFiles
              removed(p) == {i \in DOMAIN old :
                               /\ old[i].path = p
                               /\ \A k \in DOMAIN new : new[k].name # old[i].name}
          IN  /\ \A p \in {PathOf(n) : n \in 1..(MaxUploads + 1)} :
                    Count(ulast'.unlinks, p) = Cardinality(removed(p))
              /\ Elems(ulast'.unlinks) \subseteq {old[i].path : i \in DOMAIN old}
              /\ ulast'.outcome \in {"Updated", "ValidationError"}
              /\ ulast'.outcome = "Updated" => units'[ulast'.id].files = new
     ]_vars

\* C10 witness: of the stored files 1 and 2 the first was retained and the
\* second removed, and the unlink was of a file that was no longer on disk
C10_Witness ==
  /\ ulast.op = "update" /\ ulast.setter
  /\ ulast.outcome = "Updated"
  /\ ulast.newFiles = <<UploadedRec(1)>>
  /\ ulast.unlinks = <<PathOf(2)>>
  /\ ulast.missing = 1

\* C11: deleteUnit on a FileUnit with K files calls fs.unlink once per file,
\* and whatever those calls do the unit record is deleted and the unit's id
\* is afterwards in no Lecture's units list, whichever Lecture held it.
C11_DeleteCascades ==
  [][(/\ ulast'.op = "delete"
      /\ ulast'.id \in DOMAIN units
      /\ units[ulast'.id].type = "file")
       => /\ ulast'.unlinks = [i \in DOMAIN units[ulast'.id].files |->
                                units[ulast'.id].files[i].path]
          /\ ulast'.outcome = "Deleted"
          /\ ulast'.id \notin DOMAIN units'
          /\ \A l \in LectureIds : ulast'.id \notin Elems(lectures'[l])
     ]_vars

----------------------------------------------------------------------------
(* Specification of the read paths: units are created, students enroll and *)
(* users of every role read the course and single units                     *)

NextRead ==
  \/ \E lectureId \in LectureIds,
        model \in KataModels \cup {m \in AddModels : m._course = "c1" /\ m.type = "free-text"} :
        addUnit(MaxUnits, FALSE, TRUE, lectureId, model)
  \/ \E u \in UserIds : enrollStudent("c1", Undefined, u)
  \/ \E id \in CourseIds, u \in UserIds, role \in Roles, teaches \in BOOLEAN :
        getCourse(id, u, role, teaches)
  \/ \E id \in 1..MaxUnits, role \in Roles : getUnit(id, role)

SpecRead == InitUnit /\ [][NextRead]_vars

\* C12: whenever getCourse or getUnit returns a code-kata unit to a user with
\* role student its code is null or empty in the response, and the stored
\* unit keeps its code.
C12_KataCodeHiddenFromStudents ==
  /\ (resp.op \in {"getCourse", "getUnit"} /\ resp.role = "student" /\ resp.outcome = "ok")
       => \A i \in DOMAIN resp.shown :
            resp.shown[i].type = "code-kata" => resp.shown[i].code \in {Null, ""}
  /\ \A id \in DOMAIN units : units[id].type = "code-kata" => units[id].code = "solution"

\* C13: an updateUnit of a FileUnit that carries an uploaded binary and whose
\* body lists no files field appends the record of the upload to the unit's
\* files; every file attached before is still attached and none of their
\* binaries is deleted.
C13_UploadAppends ==
  [][(/\ ulast'.op = "update"
      /\ ulast'.outcome = "Updated"
      /\ nextFile' = nextFile + 1
      /\ ~ulast'.listed
      /\ units[ulast'.id].type = "file")
       => /\ units'[ulast'.id].files
               = Append(units[ulast'.id].files, UploadedRec(nextFile))
          /\ ulast'.unlinks = <<>>
          /\ \A i \in DOMAIN units[ulast'.id].files :
                units[ulast'.id].files[i].path \in disk
                  => units[ulast'.id].files[i].path \in disk'
     ]_vars

----------------------------------------------------------------------------
(* Specification of file ownership: valid file units are created in the    *)
(* first lecture, updated with uploads and lists of their own files, and    *)
(* deleted                                                                  *)

NextOwn ==
  \/ \E upload \in BOOLEAN,
        model \in {m \in AddModels : m._course = "c1" /\ m.type = "file"
                                      /\ m.fileUnitType = "file"} :
        addUnit(MaxUnits, upload, TRUE, FirstLecture, model)
  \/ \E upload \in BOOLEAN, id \in 1..MaxUnits,
        body \in {b \in UpdateBodies : b.fileUnitType = Undefined} :
        updateUnit(upload, id, body)
  \/ \E id \in 1..MaxUnits : deleteUnit(id)

SpecOwn == InitUnit /\ [][NextOwn]_vars

\* the units whose files reference the path
Owners(us, p) ==
  {id \in DOMAIN us : \E i \in DOMAIN us[id].files : us[id].files[i].path = p}

\* C14: after any sequence of addUnit, updateUnit (with an upload and/or a
\* list of the unit's own files) and deleteUnit every path is referenced by
\* the files of at most one unit, and a deleteUnit hands every file of the
\* deleted unit to fs.unlink.
C14_ExclusiveOwnership ==
  [][/\ \A n \in 1..(MaxUploads + 1) : Cardinality(Owners(units', PathOf(n))) <= 1
     /\ (ulast'.op = "delete" /\ ulast'.outcome = "Deleted")
          => /\ Elems(ulast'.unlinks)
                  = {units[ulast'.id].files[i].path : i \in DOMAIN units[ulast'.id].files}
             /\ Len(ulast'.unlinks) = Len(units[ulast'.id].files)
    ]_vars

\* a unit that owned a file has been deleted while another unit owns a file
C14_Witness ==
  /\ ulast.op = "delete"
  /\ Len(ulast.unlinks) >= 1
  /\ \E id \in DOMAIN units : Len(units[id].files) >= 1

\* the lectures whose units list holds the id
LecturesOf(ls, id) == {l \in LectureIds : id \in Elems(ls[l])}

\* C15: after every completed addUnit or deleteUnit, failed or not, every
\* persisted unit's id is in the units list of exactly one Lecture, once, and
\* no list holds the id of a unit that does not exist; a successful addUnit
\* appends the new unit's id at the end of one Lecture's list.
C15_UnitLectureLinkage ==
  [][(ulast'.op \in {"add", "delete"})
       => /\ \A id \in DOMAIN units' :
                /\ Cardinality(LecturesOf(lectures', id)) = 1
                /\ \A l \in LectureIds : Count(lectures'[l], id) <= 1
          /\ \A l \in LectureIds : Elems(lectures'[l]) \subseteq DOMAIN units'
          /\ (ulast'.op = "add" /\ ulast'.outcome = "Created")
               => \E l \in LectureIds :
                    lectures' = [lectures EXCEPT ![l] = Append(@, ulast'.id)]
     ]_vars

----------------------------------------------------------------------------
(* Specification of course administration: addCourse requests run          *)
(* concurrently, each in two steps; updateCourse is one database operation  *)

InitAdmin ==
  /\ courses = [c \in {} |-> NoDoc]
  /\ last = NoCall
  /\ reqs = [r \in 1..MaxReqs |-> IdleReq]
  /\ acked = {}
  /\ InitUnits

NextAdmin ==
  \/ \E r \in 1..MaxAdds, body \in AddCourseBodies : addCourseFind(r, body)
  \/ \E r \in 1..MaxAdds : addCourseSave(r)
  \/ \E id \in {NewCourseIds[i] : i \in 1..MaxCourses}, body \in UpdateCourseBodies,
        role \in {"teacher", "admin"}, teaches \in BOOLEAN :
        updateCourse(id, body, role, teaches)

SpecAdmin == InitAdmin /\ [][NextAdmin]_vars

\* the same operations on the names of courses only
NextNames ==
  \/ \E r \in 1..MaxAdds, body \in {b \in AddCourseBodies : b.enrollType = "free"} :
        addCourseFind(r, body)
  \/ \E r \in 1..MaxAdds : addCourseSave(r)
  \/ \E id \in {NewCourseIds[i] : i \in 1..MaxCourses},
        body \in {b \in UpdateCourseBodies : b.enrollType = Undefined
                                               /\ b.accessKey = Undefined},
        role \in {"teacher", "admin"}, teaches \in BOOLEAN :
        updateCourse(id, body, role, teaches)

SpecNames == InitAdmin /\ [][NextNames]_vars

C17_AccessKeyIffAccesskey ==
  \A c \in DOMAIN courses :
    Truthy(courses[c].accessKey) <=> courses[c].enrollType = "accesskey"

\* C18: an addUnit rejected by checkPostParam, by the validation of
\* Unit.create or by the linking to the Lecture surfaces the error
\* (ValidationError as it is, anything else as BadRequestError), deletes the
\* uploaded binary if there is one, persists no unit and changes no Lecture's
\* units list; a file unit with a fileUnitType and no file passes validation.
C18_FailedAddLeavesNoTrace ==
  [][/\ (ulast'.op = "add"
          /\ ulast'.stage \in {"checkPostParam", "create", "pushToLecture"})
          => /\ ulast'.outcome = IF ulast'.stage = "create" THEN "ValidationError"
                                  ELSE "BadRequest"
             /\ nextFile' = nextFile + 1 => PathOf(nextFile) \notin disk'
             /\ units' = units
             /\ lectures' = lectures
     /\ Valid([type |-> "file", fileUnitType |-> "file", files |-> <<>>,
               code |-> Undefined])
    ]_vars

\* C19: after every completed addUnit, updateUnit or deleteUnit, failed or
\* not, every file record of a persisted unit refers to a binary that has not
\* been deleted.
C19_NoDanglingFileReference ==
  \A id \in DOMAIN units :
    \A i \in DOMAIN units[id].files : units[id].files[i].path \in disk

====
